---- MODULE Spec2Model ----
(***************************************************************************)
(* RecycleMaster: the duplex live audio session, the support chat's        *)
(* transcript, the metrics recorder and the database service.              *)
(*                                                                         *)
(*   SupportChatbot  (src/components/ai/SupportChatbot.tsx) is the caller: *)
(*       it keeps connectionState and the reference to the LiveChatSession *)
(*   LiveChatSession (src/services/geminiService.ts) is the Session        *)
(*       Controller: Transport, audio contexts, capture and playback.      *)
(*                                                                         *)
(* One action is one run of a handler from the moment the event loop       *)
(* enters it to its next real suspension point (an await on a device or on *)
(* the Transport).  A continuation of an await on an already settled       *)
(* promise is a microtask and belongs to the same action.                  *)
(***************************************************************************)
EXTENDS Integers, Sequences, FiniteSets, TLC

\* ---------------------------------------------------------------- bounds
MaxSessions == 2          \* LiveChatSession instances ever constructed
MaxPendingConnects == 1   \* SupportChatbot.connect calls waiting at line 68
MaxMsgs == 3              \* inbound Transport messages handled in a run
MaxLifecycleMsgs == 1     \* the same, in runs that also walk the connection life cycle
MaxSessionMsgs == 2       \* the same, in runs of a Connected session that may be disconnected
MaxDecoding == 2          \* decodeAudioData calls pending per session
MaxClock == 2             \* device clock ticks while nothing plays
MaxLifecycleClock == 1    \* device clock ticks in runs that walk the connection life cycle
MaxDur == 2               \* longest decoded buffer, in clock ticks
MaxBlocks == 2            \* captured sample blocks in a run
MaxLifecycleBlocks == 1   \* the same, in runs that also walk the connection life cycle
MaxBlockLen == 2          \* samples in a block given to createPcmBlob
MaxSubSteps == 2          \* sample values distinguished within one 16-bit step
MaxTextLen == 1           \* characters in the text of one transcription
MaxTranscriptLen == 2     \* characters accumulated in a transcript of a turn
MaxStored == 1            \* readings of each age in the table when the app starts
MaxSaves == 1             \* readings the recording timer saves in a run
MaxInits == 2             \* platform initialisations started in a run
MaxCloses == 2            \* closeDatabase calls settled in a run

Sessions == 1..MaxSessions
Durations == 1..MaxDur

VARIABLES
    \* ---- SupportChatbot
    apiKey,              \* geminiService.ts:4-7      module-level `ai` is set
    connectionState,     \* SupportChatbot.tsx:18
    liveChatSessionRef,  \* SupportChatbot.tsx:23     0 is null
    pendingConnects,     \* SupportChatbot.tsx:68     connect() calls awaiting getUserMedia
    uiStream,            \* SupportChatbot.tsx:68     a MediaStream was obtained (never stopped)
    created,             \* SupportChatbot.tsx:65     instances constructed so far
    \* ---- LiveChatSession, one value per instance
    sessionPromise,      \* geminiService.ts:53
    inputAudioContext,   \* geminiService.ts:54
    outputAudioContext,  \* geminiService.ts:55
    nextStartTime,       \* geminiService.ts:56
    audioSources,        \* geminiService.ts:57
    transport,           \* geminiService.ts:66       the channel behind ai.live.connect
    onopenPc,            \* geminiService.ts:69-86    position of the async onopen handler
    stream,              \* geminiService.ts:72       MediaStream held by onopen (never stopped)
    capturing,           \* geminiService.ts:83-84    script processor wired into the graph
    decoding,            \* geminiService.ts:124      handleAudio calls suspended in decode
    \* ---- what the Playback Pipeline of an instance did last
    lastStarted,         \* geminiService.ts:131      the source started last since the last flush
    lastFailed,          \* geminiService.ts:124      the payload whose decode failed last
    flushedUpTo,         \* geminiService.ts:137-143  the message that caused the last flush (0: none yet)
    disconnectPc,        \* geminiService.ts:145-152  position of the async disconnect
    resourceLog,         \* geminiService.ts:64-72, 147-149  acquisitions and releases, in order
    \* ---- environment
    now,                 \* AudioContext.currentTime of the output device
    msgCount,            \* messages delivered so far
    sendCalls,           \* sendRealtimeInput calls so far
    micAvailable,        \* getUserMedia({audio: true}) would resolve now
    \* ---- Capture Pipeline and Frame Encoder
    captureLog,          \* geminiService.ts:77      blocks the script processor delivered
    sendLog,             \* geminiService.ts:80      arguments of sendRealtimeInput, in order
    pcmInput,            \* geminiService.ts:107     the block given to createPcmBlob
    pcmBlob,             \* geminiService.ts:113-116 what createPcmBlob returned for it
    \* ---- SupportChatbot, the transcript of the conversation
    history,             \* SupportChatbot.tsx:19
    currentUserInput,    \* SupportChatbot.tsx:20
    currentModelOutput,  \* SupportChatbot.tsx:21
    lastTranscript,      \* SupportChatbot.tsx:26     the transcript part of the message handled last
    pendingOnMessage,    \* SupportChatbot.tsx:47, 62 dependencies of the onMessage each waiting connect() holds
    onMessageDeps,       \* geminiService.ts:59, 88   dependencies of the onMessage an instance calls
    \* ---- App
    isDeviceOn,          \* App.tsx:50-53
    \* ---- DataProvider
    isDbReady,           \* DataContext.tsx:40
    readingsCount,       \* DataContext.tsx:41
    recordingIntervalRef,  \* DataContext.tsx:48     holds a timer id
    simulationIntervalRef, \* DataContext.tsx:49     holds a timer id
    settingsRef,         \* DataContext.tsx:50       holds settings
    isDeviceOnRef,       \* DataContext.tsx:51
    initPc,              \* DataContext.tsx:55-78    position of the async init
    readingsRead,        \* DataContext.tsx:66-71    the length init is about to expose
    recordingTimers,     \* DataContext.tsx:99       live interval timers of startRecording
    simulationTimers,    \* DataContext.tsx:131      live interval timers of startSimulation
    periodicSaves,       \* DataContext.tsx:111      readings the recording timer saved
    \* ---- databaseService, the readings table
    storedOld,           \* databaseService.ts:20-33 rows older than the retention period
    storedRecent,        \* databaseService.ts:20-33 the other rows
    \* ---- databaseService, the connection
    dbInitPromise,       \* databaseService.ts:14    0 is null, else the run it belongs to
    initRuns,            \* databaseService.ts:46-52 the platform initialisations started
    db,                  \* databaseService.ts:12-13 nativeDb or webDb
    isNative,            \* databaseService.ts:8
    closePc,             \* databaseService.ts:430-443 position of the async closeDatabase
    closed,              \* databaseService.ts:430   closeDatabase calls that settled
    lastReceived         \* databaseService.ts:44, 54 what the last initDatabase call returned

chatbotVars == <<apiKey, connectionState, liveChatSessionRef, pendingConnects, uiStream, created>>
sessionVars == <<sessionPromise, inputAudioContext, outputAudioContext, transport,
                 onopenPc, stream, capturing, disconnectPc, resourceLog>>
playbackVars == <<nextStartTime, audioSources, decoding, lastStarted, lastFailed, flushedUpTo>>
envVars == <<now, msgCount, sendCalls, micAvailable>>
captureVars == <<captureLog, sendLog>>
encoderVars == <<pcmInput, pcmBlob>>
transcriptState == <<history, currentUserInput, currentModelOutput, lastTranscript>>
callbackVars == <<pendingOnMessage, onMessageDeps>>
transcriptVars == <<transcriptState, callbackVars>>
appVars == <<isDeviceOn>>
timerVars == <<recordingIntervalRef, simulationIntervalRef, recordingTimers, simulationTimers>>
deviceVars == <<settingsRef, isDeviceOnRef, timerVars>>
countVars == <<readingsCount, readingsRead, periodicSaves>>
dataVars == <<appVars, isDbReady, initPc, deviceVars, countVars>>
tableVars == <<storedOld, storedRecent>>
dbVars == <<dbInitPromise, initRuns, db, isNative, closePc, closed, lastReceived>>
\* what the live audio session never touches
otherVars == <<encoderVars, dataVars, tableVars, dbVars>>
vars == <<chatbotVars, sessionVars, playbackVars, envVars, captureVars, transcriptVars,
          otherVars>>

Max(a, b) == IF a >= b THEN a ELSE b

ConnectionStates == {"disconnected", "connecting", "connected", "error"}
PromiseStates == {"null", "pending", "resolved", "rejected"}
ContextStates == {"null", "running", "closed"}
TransportStates == {"none", "opening", "open", "closing", "failed", "closed"}

\* What a session acquires and releases: the output device (output context),
\* the Transport, the input device (input context) and the microphone stream.
Resources == {"output", "transport", "input", "microphone"}
Acquire(r) == [op |-> "acquire", res |-> r]
Release(r) == [op |-> "release", res |-> r]

\* A scheduled AudioBufferSourceNode: the payload it came from, the time
\* passed to start(), the buffer's duration and the device time of the call.
Handle(id, start, dur, at) == [id |-> id, start |-> start, dur |-> dur, at |-> at]

\* No source: payloads are numbered from 1.
NoHandle == Handle(0, 0, 0, 0)

\* Transcribed text, a sequence of characters.  A transcription that is
\* absent from a message and one with the empty text add the same to an
\* accumulator: nothing.
Chars == {"a", " "}
NoText == <<>>
TextsUpTo(n) == UNION {[1..l -> Chars] : l \in 0..n}

\* String.prototype.trim
RECURSIVE trim(_)
trim(text) ==
    IF text = NoText THEN NoText
    ELSE IF Head(text) = " " THEN trim(Tail(text))
    ELSE IF text[Len(text)] = " " THEN trim(SubSeq(text, 1, Len(text) - 1))
    ELSE text

\* An inbound LiveServerMessage, reduced to what the session and its caller
\* read.  audio: parts[0].inlineData.data is present; ok: it decodes; dur:
\* the decoded buffer's duration (0 where there is no buffer); interrupted:
\* serverContent.interrupted; inputTranscription, outputTranscription: the
\* text of serverContent's transcriptions; turnComplete:
\* serverContent.turnComplete.
AudioMessages ==
    [audio: {TRUE}, ok: {TRUE}, dur: Durations, interrupted: BOOLEAN,
     inputTranscription: {NoText}, outputTranscription: {NoText}, turnComplete: {FALSE}]
      \cup [audio: {TRUE}, ok: {FALSE}, dur: {0}, interrupted: BOOLEAN,
            inputTranscription: {NoText}, outputTranscription: {NoText},
            turnComplete: {FALSE}]
      \cup [audio: {FALSE}, ok: {TRUE}, dur: {0}, interrupted: BOOLEAN,
            inputTranscription: {NoText}, outputTranscription: {NoText},
            turnComplete: {FALSE}]

\* The messages of a conversation whose audio is left out
TranscriptMessages ==
    [audio: {FALSE}, ok: {TRUE}, dur: {0}, interrupted: {FALSE},
     inputTranscription: TextsUpTo(MaxTextLen),
     outputTranscription: TextsUpTo(MaxTextLen), turnComplete: BOOLEAN]

Messages == AudioMessages

\* The transcript part of a message
TranscriptOf(m) ==
    [inputTranscription |-> m.inputTranscription,
     outputTranscription |-> m.outputTranscription,
     turnComplete |-> m.turnComplete]

NoTranscript ==
    [inputTranscription |-> NoText, outputTranscription |-> NoText, turnComplete |-> FALSE]

\* SupportChatbot.tsx:47: what an onMessage callback closes over, the two
\* accumulators as they were in the render that created it
Deps(userInput, modelOutput) ==
    [currentUserInput |-> userInput, currentModelOutput |-> modelOutput]

NoDeps == Deps(NoText, NoText)

\* ------------------------------------------------------- Frame Encoder

\* geminiService.ts:111: the scale of a sample
FullScale == 32768

\* geminiService.ts:109: the width of an Int16Array element, in bits
Int16Bits == 16

\* A Float32 sample is kept as an integer n that stands for
\* n / (MaxSubSteps * FullScale), so that data[i] * 32768 is n / MaxSubSteps.
\* The samples tried lie within one 16-bit step of these values:
\* -1.5, just below -1, -1, -0.5, 0, 0.5, the largest step below 1, 1, 1.5.
SampleAnchors == {-49152, -32769, -32768, -16384, 0, 16384, 32767, 32768, 49152}
Samples ==
    UNION {(a - 1) * MaxSubSteps .. (a + 1) * MaxSubSteps : a \in SampleAnchors}

\* The sample with value v steps of 1/32768
SampleOf(v) == v * MaxSubSteps

\* Float32Array blocks of MaxBlockLen samples at most
Blocks == UNION {[1..l -> Samples] : l \in 0..MaxBlockLen}

\* one captured block of silence
SilentBlock == <<SampleOf(0)>>

\* The blocks the microphone delivers in the runs of the Capture Pipeline:
\* silence, half-scale tones, a full-scale peak, an empty block.
CaptureBlocks ==
    {SilentBlock, <<SampleOf(16384), SampleOf(16384)>>, <<SampleOf(-16384)>>,
     <<SampleOf(32768), SampleOf(-32768)>>, <<>>}

\* ECMAScript ToInt16 of data[i] * 32768 (the store into an Int16Array,
\* geminiService.ts:111): truncate towards zero, then wrap modulo 2^16 into
\* -32768..32767.
Truncate(n) == IF n >= 0 THEN n \div MaxSubSteps ELSE -((-n) \div MaxSubSteps)

\* the store with the value clamped to -32768..32767 instead of wrapped
ToInt16Clamped(n) ==
    LET m == 2 ^ Int16Bits
    IN  IF Truncate(n) > m \div 2 - 1 THEN m \div 2 - 1
        ELSE IF Truncate(n) < -(m \div 2) THEN -(m \div 2)
        ELSE Truncate(n)

ToInt16(n) ==
    LET m == 2 ^ Int16Bits
    IN  ((Truncate(n) + m \div 2) % m) - m \div 2

\* geminiService.ts:108-112
Int16Array(data) == [i \in 1..Len(data) |-> ToInt16(data[i])]

\* geminiService.ts:114: new Uint8Array(int16.buffer), the two bytes of every
\* element in the order of the platform, which is little-endian
Uint8Array(int16) ==
    [k \in 1..(2 * Len(int16)) |->
        LET u == int16[(k + 1) \div 2] % (2 ^ Int16Bits)
        IN  IF k % 2 = 1 THEN u % 256 ELSE u \div 256]

\* The padding character of base64, after the 64 characters of its alphabet
Pad == 64

\* encode of utils/audioUtils: base64 of the bytes, as positions in the
\* base64 alphabet.
RECURSIVE encode(_)
encode(bytes) ==
    IF Len(bytes) = 0 THEN <<>>
    ELSE LET a == bytes[1]
             b == IF Len(bytes) >= 2 THEN bytes[2] ELSE 0
             c == IF Len(bytes) >= 3 THEN bytes[3] ELSE 0
         IN  IF Len(bytes) = 1 THEN <<a \div 4, (a % 4) * 16, Pad, Pad>>
             ELSE IF Len(bytes) = 2
                  THEN <<a \div 4, (a % 4) * 16 + b \div 16, (b % 16) * 4, Pad>>
                  ELSE <<a \div 4, (a % 4) * 16 + b \div 16,
                         (b % 16) * 4 + c \div 64, c % 64>>
                           \o encode(SubSeq(bytes, 4, Len(bytes)))

\* decode of utils/audioUtils: the bytes of a base64 text
RECURSIVE decode(_)
decode(text) ==
    IF Len(text) < 4 THEN <<>>
    ELSE LET a == text[1]
             b == text[2]
             c == text[3]
             d == text[4]
             first == a * 4 + b \div 16
             second == (b % 16) * 16 + c \div 4
             third == (c % 4) * 64 + d
         IN  (IF c = Pad THEN <<first>>
              ELSE IF d = Pad THEN <<first, second>>
              ELSE <<first, second, third>>) \o decode(SubSeq(text, 5, Len(text)))

\* geminiService.ts:107-117
createPcmBlob(data) ==
    [data |-> encode(Uint8Array(Int16Array(data))), mimeType |-> "audio/pcm;rate=16000"]

\* The media blobs of the blocks, and the value of a blob not made yet
Blobs == {createPcmBlob(data) : data \in Blocks}
NoBlob == [data |-> <<>>, mimeType |-> ""]

\* SupportChatbot.tsx:19-21: nothing was said yet.  The render that shows
\* Connect for the first time has empty accumulators, and so has the
\* onMessage of the connect() it offers.
InitTranscript ==
    /\ history = <<>>
    /\ currentUserInput = NoText
    /\ currentModelOutput = NoText
    /\ lastTranscript = NoTranscript
    /\ pendingOnMessage = <<>>
    /\ onMessageDeps = [s \in Sessions |-> NoDeps]

\* DataContext.tsx:40-51 and App.tsx: the first render, over a table that
\* holds `old` rows older than the retention period and `recent` others
InitDataProvider(old, recent) ==
    /\ isDeviceOn = FALSE
    /\ isDbReady = FALSE
    /\ readingsCount = 0
    /\ recordingIntervalRef = FALSE
    /\ simulationIntervalRef = FALSE
    /\ settingsRef = FALSE
    /\ isDeviceOnRef = FALSE
    /\ initPc = "idle"
    /\ readingsRead = 0
    /\ recordingTimers = 0
    /\ simulationTimers = 0
    /\ periodicSaves = 0
    /\ storedOld = old
    /\ storedRecent = recent

\* What initDatabase returned: the run of the promise, and the number of
\* closeDatabase calls that had settled by then
Receipt(run, epoch) == [run |-> run, epoch |-> epoch]
NoReceipt == Receipt(0, 0)

\* databaseService.ts:8-14: the module as loaded on a platform
InitDatabaseOn(native) ==
    /\ dbInitPromise = 0
    /\ initRuns = <<>>
    /\ db = "null"
    /\ isNative = native
    /\ closePc = "idle"
    /\ closed = 0
    /\ lastReceived = NoReceipt

\* Nothing was given to createPcmBlob yet.
InitPcm ==
    /\ pcmInput = <<>>
    /\ pcmBlob = NoBlob

\* The first launch in a browser: nothing encoded, an empty table
InitOther ==
    /\ InitPcm
    /\ InitDataProvider(0, 0)
    /\ InitDatabaseOn(FALSE)

\* The variables of the live audio session
audioVars == <<chatbotVars, sessionVars, playbackVars, envVars, captureVars, transcriptVars>>

\* No cursor and no clock reading lies beyond this: the clock runs to
\* MaxClock, and further only while a buffer plays.
ClockHorizon == MaxClock + MaxMsgs * MaxDur

TypeOK ==
    /\ apiKey \in BOOLEAN
    /\ connectionState \in ConnectionStates
    /\ liveChatSessionRef \in 0..MaxSessions
    /\ pendingConnects \in 0..MaxPendingConnects
    /\ uiStream \in BOOLEAN
    /\ created \in 0..MaxSessions
    /\ sessionPromise \in [Sessions -> PromiseStates]
    /\ inputAudioContext \in [Sessions -> ContextStates]
    /\ outputAudioContext \in [Sessions -> ContextStates]
    /\ transport \in [Sessions -> TransportStates]
    /\ onopenPc \in [Sessions -> {"idle", "awaitMic", "done", "failed"}]
    /\ stream \in [Sessions -> BOOLEAN]
    /\ capturing \in [Sessions -> BOOLEAN]
    /\ disconnectPc \in [Sessions -> {"idle", "await", "done", "threw"}]
    /\ resourceLog \in [Sessions -> Seq([op : {"acquire", "release"}, res : Resources])]
    /\ nextStartTime \in [Sessions -> 0..ClockHorizon]
    /\ \A s \in Sessions : IsFiniteSet(audioSources[s])
    /\ \A s \in Sessions : Len(decoding[s]) <= MaxDecoding
    /\ \A s \in Sessions : lastStarted[s].id \in 0..MaxMsgs
    /\ lastFailed \in [Sessions -> 0..MaxMsgs]
    /\ flushedUpTo \in [Sessions -> 0..MaxMsgs]
    /\ now \in 0..ClockHorizon
    /\ msgCount \in 0..MaxMsgs
    /\ sendCalls \in 0..MaxBlocks
    /\ micAvailable \in BOOLEAN
    /\ captureLog \in Seq([session : Sessions, data : Blocks])
    /\ sendLog \in Seq([session : Sessions, media : Blobs])
    /\ pcmInput \in Blocks
    /\ pcmBlob \in Blobs \cup {NoBlob}
    /\ history \in Seq([speaker : {"user", "model"}, text : Seq(Chars)])
    /\ currentUserInput \in TextsUpTo(MaxTranscriptLen)
    /\ currentModelOutput \in TextsUpTo(MaxTranscriptLen)
    /\ lastTranscript \in {TranscriptOf(m) : m \in Messages \cup TranscriptMessages}
    /\ Len(pendingOnMessage) = pendingConnects
    /\ \A s \in Sessions : onMessageDeps[s].currentUserInput \in TextsUpTo(MaxTranscriptLen)
    /\ isDeviceOn \in BOOLEAN
    /\ isDbReady \in BOOLEAN
    /\ readingsCount \in Nat
    /\ recordingIntervalRef \in BOOLEAN
    /\ simulationIntervalRef \in BOOLEAN
    /\ settingsRef \in BOOLEAN
    /\ isDeviceOnRef \in BOOLEAN
    /\ initPc \in {"idle", "initDatabase", "getLatestReading", "setReadingsCount",
                    "deleteOldReadings", "done", "failed"}
    /\ readingsRead \in Nat
    /\ recordingTimers \in Nat
    /\ simulationTimers \in Nat
    /\ periodicSaves \in 0..MaxSaves
    /\ storedOld \in 0..MaxStored
    /\ storedRecent \in Nat
    /\ dbInitPromise \in 0..Len(initRuns)
    /\ Len(initRuns) <= MaxInits
    /\ \A r \in 1..Len(initRuns) :
          /\ initRuns[r].status \in {"running", "resolved", "rejected"}
          /\ initRuns[r].epoch \in 0..MaxCloses
    /\ db \in {"null", "open"}
    /\ isNative \in BOOLEAN
    /\ closePc \in {"idle", "await"}
    /\ closed \in 0..MaxCloses
    /\ lastReceived.run \in 0..MaxInits /\ lastReceived.epoch \in 0..MaxCloses

InitAudio ==
    /\ apiKey \in BOOLEAN
    /\ connectionState = "disconnected"
    /\ liveChatSessionRef = 0
    /\ pendingConnects = 0
    /\ uiStream = FALSE
    /\ created = 0
    /\ sessionPromise = [s \in Sessions |-> "null"]
    /\ inputAudioContext = [s \in Sessions |-> "null"]
    /\ outputAudioContext = [s \in Sessions |-> "null"]
    /\ transport = [s \in Sessions |-> "none"]
    /\ onopenPc = [s \in Sessions |-> "idle"]
    /\ stream = [s \in Sessions |-> FALSE]
    /\ capturing = [s \in Sessions |-> FALSE]
    /\ disconnectPc = [s \in Sessions |-> "idle"]
    /\ resourceLog = [s \in Sessions |-> <<>>]
    /\ nextStartTime = [s \in Sessions |-> 0]
    /\ audioSources = [s \in Sessions |-> {}]
    /\ decoding = [s \in Sessions |-> <<>>]
    /\ lastStarted = [s \in Sessions |-> NoHandle]
    /\ lastFailed = [s \in Sessions |-> 0]
    /\ flushedUpTo = [s \in Sessions |-> 0]
    /\ now = 0
    /\ msgCount = 0
    /\ sendCalls = 0
    /\ micAvailable \in BOOLEAN
    /\ captureLog = <<>>
    /\ sendLog = <<>>
    /\ InitTranscript

\* The state after construction
Init == InitAudio /\ InitOther

\* ------------------------------------------------------- LiveChatSession

\* geminiService.ts:137-143.  `signal` is the message that caused the flush:
\* every payload up to it, decoded or not, came before the flush's cause.
interruptAudio(s, signal) ==
    /\ audioSources' = [audioSources EXCEPT ![s] = {}]
    /\ nextStartTime' = [nextStartTime EXCEPT ![s] = 0]
    /\ lastStarted' = [lastStarted EXCEPT ![s] = NoHandle]
    /\ flushedUpTo' = [flushedUpTo EXCEPT ![s] = signal]

\* AudioContext.close() on a context that may be null (?.) or already closed
CloseContext(c) == IF c = "running" THEN "closed" ELSE c

\* session?.close(): `opened` says that the awaited promise gave a session
CloseTransport(t, opened) == IF opened /\ t = "open" THEN "closing" ELSE t

\* The three close() calls of disconnect() in the reverse of the order in which
\* connect() acquired: input context, Transport, output context.
ReleasesInReverse(t, inCtx, outCtx, opened) ==
    (IF inCtx = "running" THEN <<Release("input")>> ELSE <<>>)
      \o (IF opened /\ t = "open" THEN <<Release("transport")>> ELSE <<>>)
      \o (IF outCtx = "running" THEN <<Release("output")>> ELSE <<>>)

\* geminiService.ts:147-149: what the three close() calls release, in the
\* order of the calls
Releases(t, inCtx, outCtx, opened) ==
    (IF opened /\ t = "open" THEN <<Release("transport")>> ELSE <<>>)
      \o (IF inCtx = "running" THEN <<Release("input")>> ELSE <<>>)
      \o (IF outCtx = "running" THEN <<Release("output")>> ELSE <<>>)

\* geminiService.ts:147-151, the part of disconnect() after the await, run
\* on an instance whose Transport is in state t, whose input context is inCtx
\* and whose log of acquisitions and releases is log
Teardown(s, t, inCtx, opened, log) ==
    /\ transport' = [transport EXCEPT ![s] = CloseTransport(t, opened)]
    /\ inputAudioContext' = [inputAudioContext EXCEPT ![s] = CloseContext(inCtx)]
    /\ outputAudioContext' = [outputAudioContext EXCEPT ![s] = CloseContext(@)]
    /\ resourceLog' = [resourceLog EXCEPT ![s] =
                           log \o Releases(t, inCtx, outputAudioContext[s], opened)]
    /\ sessionPromise' = [sessionPromise EXCEPT ![s] = "null"]
    /\ interruptAudio(s, msgCount)
    /\ disconnectPc' = [disconnectPc EXCEPT ![s] = "done"]

\* geminiService.ts:145-152, from the call to the first suspension
LiveChatSession_disconnect(s) ==
    CASE sessionPromise[s] \in {"null", "resolved"} ->
            /\ Teardown(s, transport[s], inputAudioContext[s],
                        sessionPromise[s] = "resolved", resourceLog[s])
            /\ UNCHANGED <<onopenPc, stream, capturing, decoding, lastFailed>>
      [] sessionPromise[s] = "pending" ->
            /\ disconnectPc' = [disconnectPc EXCEPT ![s] = "await"]
            /\ UNCHANGED <<sessionPromise, inputAudioContext, outputAudioContext,
                           transport, onopenPc, stream, capturing, resourceLog, playbackVars>>
      [] sessionPromise[s] = "rejected" ->
            /\ disconnectPc' = [disconnectPc EXCEPT ![s] = "threw"]
            /\ UNCHANGED <<sessionPromise, inputAudioContext, outputAudioContext,
                           transport, onopenPc, stream, capturing, resourceLog, playbackVars>>

\* LiveChatSession.connect without the early return of line 61: every call
\* opens a Transport and acquires an output device.
LiveChatSession_connect_reopen(s, deps) ==
    /\ onMessageDeps' = [onMessageDeps EXCEPT ![s] = deps]
    /\ outputAudioContext' = [outputAudioContext EXCEPT ![s] = "running"]
    /\ sessionPromise' = [sessionPromise EXCEPT ![s] = "pending"]
    /\ transport' = [transport EXCEPT ![s] = "opening"]
    /\ resourceLog' = [resourceLog EXCEPT ![s] =
                           @ \o <<Acquire("output"), Acquire("transport")>>]

\* geminiService.ts:59-66 and 104, after the API-key test of line 60.  The
\* callbacks given to ai.live.connect close over the onMessage of this call,
\* of which `deps` is what it closes over in turn.
LiveChatSession_connect(s, deps) ==
    IF sessionPromise[s] # "null"
    THEN UNCHANGED <<sessionPromise, outputAudioContext, transport, resourceLog,
                     onMessageDeps>>
    ELSE /\ onMessageDeps' = [onMessageDeps EXCEPT ![s] = deps]
         /\ outputAudioContext' = [outputAudioContext EXCEPT ![s] = "running"]
         /\ sessionPromise' = [sessionPromise EXCEPT ![s] = "pending"]
         /\ transport' = [transport EXCEPT ![s] = "opening"]
         /\ resourceLog' = [resourceLog EXCEPT ![s] =
                                @ \o <<Acquire("output"), Acquire("transport")>>]

\* -------------------------------------------------------- SupportChatbot

\* SupportChatbot.tsx:62-68, up to the await on getUserMedia.  The connect of
\* a render holds the onMessage of that render (line 74).
SupportChatbot_connect ==
    /\ pendingConnects < MaxPendingConnects
    /\ liveChatSessionRef = 0 => created < MaxSessions
    /\ connectionState' = "connecting"
    /\ IF liveChatSessionRef = 0
       THEN /\ created' = created + 1
            /\ liveChatSessionRef' = created + 1
       ELSE UNCHANGED <<created, liveChatSessionRef>>
    /\ pendingConnects' = pendingConnects + 1
    /\ pendingOnMessage' = Append(pendingOnMessage,
                                  Deps(currentUserInput, currentModelOutput))
    /\ UNCHANGED <<apiKey, uiStream, sessionVars, playbackVars, now, msgCount, sendCalls,
                   captureVars, transcriptState, onMessageDeps, otherVars, micAvailable>>

\* SupportChatbot.tsx:68-73, getUserMedia resolved: the session's connect is
\* called on whatever the reference holds now; a throw lands in the catch
SupportChatbot_connect_granted ==
    /\ pendingConnects > 0
    /\ micAvailable
    /\ pendingConnects' = pendingConnects - 1
    /\ pendingOnMessage' = Tail(pendingOnMessage)
    /\ uiStream' = TRUE
    /\ IF liveChatSessionRef = 0 \/ ~apiKey
       THEN /\ connectionState' = "error"
            /\ UNCHANGED <<sessionPromise, outputAudioContext, transport, resourceLog,
                           onMessageDeps>>
       ELSE /\ LiveChatSession_connect(liveChatSessionRef, Head(pendingOnMessage))
            /\ UNCHANGED connectionState
    /\ UNCHANGED <<apiKey, liveChatSessionRef, created, inputAudioContext, onopenPc,
                   stream, capturing, disconnectPc, playbackVars, now, msgCount, sendCalls,
                   captureVars, transcriptState, otherVars, micAvailable>>

\* SupportChatbot.tsx:68-73, getUserMedia rejected
SupportChatbot_connect_denied ==
    /\ pendingConnects > 0
    /\ ~micAvailable
    /\ pendingConnects' = pendingConnects - 1
    /\ pendingOnMessage' = Tail(pendingOnMessage)
    /\ connectionState' = "error"
    /\ UNCHANGED <<apiKey, liveChatSessionRef, uiStream, created, sessionVars,
                   playbackVars, now, msgCount, sendCalls,
                   captureVars, transcriptState, onMessageDeps, otherVars, micAvailable>>

\* SupportChatbot.tsx:76-80
SupportChatbot_disconnect ==
    /\ IF liveChatSessionRef = 0
       THEN UNCHANGED <<sessionVars, playbackVars>>
       ELSE LiveChatSession_disconnect(liveChatSessionRef)
    /\ liveChatSessionRef' = 0
    /\ connectionState' = "disconnected"
    /\ UNCHANGED <<apiKey, pendingConnects, uiStream, created, now, msgCount, sendCalls,
                   captureVars, transcriptVars, otherVars, micAvailable>>


\* ------------------------------------------- Transport events and handlers

\* SupportChatbot.tsx:49-52
onError == connectionState' = "error"

\* SupportChatbot.tsx:54-56
onClose == connectionState' = "disconnected"

\* SupportChatbot.tsx:58-60
onOpen == connectionState' = "connected"

\* geminiService.ts:69-72: the Transport opened.  onopen creates the input
\* context and suspends in getUserMedia; the promise of ai.live.connect is
\* fulfilled in the same turn, and a disconnect() that was waiting for it
\* continues as a microtask.
onopen(s) ==
    /\ transport[s] = "opening"
    /\ onopenPc' = [onopenPc EXCEPT ![s] = "awaitMic"]
    /\ IF disconnectPc[s] = "await"
       THEN Teardown(s, "open", "running", TRUE, Append(resourceLog[s], Acquire("input")))
       ELSE /\ transport' = [transport EXCEPT ![s] = "open"]
            /\ inputAudioContext' = [inputAudioContext EXCEPT ![s] = "running"]
            /\ sessionPromise' = [sessionPromise EXCEPT ![s] = "resolved"]
            /\ resourceLog' = [resourceLog EXCEPT ![s] = Append(@, Acquire("input"))]
            /\ UNCHANGED <<outputAudioContext, disconnectPc, nextStartTime, audioSources,
                           lastStarted, flushedUpTo>>
    /\ UNCHANGED <<chatbotVars, stream, capturing, decoding, lastFailed,
                   now, msgCount, sendCalls, captureVars, transcriptVars, otherVars, micAvailable>>

\* geminiService.ts:72-85: getUserMedia resolved inside onopen.  Building the
\* capture graph on a context that disconnect() already closed either throws
\* or yields a dead graph, depending on the browser.
onopen_granted(s) ==
    /\ onopenPc[s] = "awaitMic"
    /\ micAvailable
    /\ stream' = [stream EXCEPT ![s] = TRUE]
    /\ resourceLog' = [resourceLog EXCEPT ![s] = Append(@, Acquire("microphone"))]
    /\ \E throws \in BOOLEAN :
          /\ throws => inputAudioContext[s] = "closed"
          /\ IF throws
             THEN /\ onopenPc' = [onopenPc EXCEPT ![s] = "failed"]
                  /\ UNCHANGED <<capturing, connectionState>>
             ELSE /\ onopenPc' = [onopenPc EXCEPT ![s] = "done"]
                  /\ capturing' = [capturing EXCEPT ![s] = TRUE]
                  /\ onOpen
    /\ UNCHANGED <<apiKey, liveChatSessionRef, pendingConnects, uiStream, created,
                   sessionPromise, inputAudioContext, outputAudioContext, transport,
                   disconnectPc, playbackVars, now, msgCount, sendCalls,
                   captureVars, transcriptVars, otherVars, micAvailable>>

\* geminiService.ts:72: getUserMedia rejected inside onopen; nothing catches it
onopen_denied(s) ==
    /\ onopenPc[s] = "awaitMic"
    /\ ~micAvailable
    /\ onopenPc' = [onopenPc EXCEPT ![s] = "failed"]
    /\ UNCHANGED <<chatbotVars, sessionPromise, inputAudioContext, outputAudioContext,
                   transport, stream, capturing, disconnectPc, resourceLog, playbackVars,
                   now, msgCount, sendCalls, captureVars, transcriptVars, otherVars, micAvailable>>

\* geminiService.ts:94: the Transport reports an error.  When it had not
\* opened yet, the promise of ai.live.connect is left pending or rejected,
\* whichever the SDK does; a waiting disconnect() then hangs or throws.
onerror(s) ==
    /\ transport[s] \in {"opening", "open"}
    /\ transport' = [transport EXCEPT ![s] = "failed"]
    /\ onError
    /\ \E rejects \in BOOLEAN :
          /\ rejects => transport[s] = "opening"
          /\ sessionPromise' = [sessionPromise EXCEPT ![s] = IF rejects THEN "rejected" ELSE @]
          /\ disconnectPc' = [disconnectPc EXCEPT ![s] =
                                 IF rejects /\ @ = "await" THEN "threw" ELSE @]
    /\ UNCHANGED <<apiKey, liveChatSessionRef, pendingConnects, uiStream, created,
                   inputAudioContext, outputAudioContext, onopenPc, stream, capturing,
                   resourceLog, playbackVars, now, msgCount, sendCalls,
                   captureVars, transcriptVars, otherVars, micAvailable>>

\* geminiService.ts:95: the Transport closed: by the peer, after close(), or
\* after an error
onclose(s) ==
    /\ transport[s] \in {"open", "closing", "failed"}
    /\ transport' = [transport EXCEPT ![s] = "closed"]
    /\ onClose
    /\ UNCHANGED <<apiKey, liveChatSessionRef, pendingConnects, uiStream, created,
                   sessionPromise, inputAudioContext, outputAudioContext, onopenPc,
                   stream, capturing, disconnectPc, resourceLog, playbackVars,
                   now, msgCount, sendCalls, captureVars, transcriptVars, otherVars, micAvailable>>

\* onaudioprocess with the newest block put in front of what was sent
onaudioprocessNewestFirst(s, data) ==
    /\ capturing[s]
    /\ inputAudioContext[s] = "running"
    /\ Len(captureLog) < MaxBlocks
    /\ captureLog' = Append(captureLog, [session |-> s, data |-> data])
    /\ IF sessionPromise[s] = "resolved"
       THEN /\ sendCalls' = sendCalls + 1
            /\ sendLog' = <<[session |-> s, media |-> createPcmBlob(data)]>> \o sendLog
       ELSE UNCHANGED <<sendCalls, sendLog>>
    /\ UNCHANGED <<chatbotVars, sessionVars, playbackVars, now, msgCount, micAvailable,
                   transcriptVars, otherVars>>

\* geminiService.ts:76-82: the script processor delivers a block.  The
\* callback given to then() runs as a microtask when the promise of
\* ai.live.connect is fulfilled, and never when it is null (?.) or rejected.
onaudioprocess(s, data) ==
    /\ capturing[s]
    /\ inputAudioContext[s] = "running"
    /\ Len(captureLog) < MaxBlocks
    /\ captureLog' = Append(captureLog, [session |-> s, data |-> data])
    /\ IF sessionPromise[s] = "resolved"
       THEN /\ sendCalls' = sendCalls + 1
            /\ sendLog' = Append(sendLog, [session |-> s, media |-> createPcmBlob(data)])
       ELSE UNCHANGED <<sendCalls, sendLog>>
    /\ UNCHANGED <<chatbotVars, sessionVars, playbackVars, now, msgCount, micAvailable,
                   transcriptVars, otherVars>>

\* ---------------------------------------------------------------- playback

RemoveAt(q, i) == [j \in 1..(Len(q) - 1) |-> IF j < i THEN q[j] ELSE q[j + 1]]

\* A history entry for the text, if there is any
Entry(speaker, text) ==
    IF text = NoText THEN <<>> ELSE <<[speaker |-> speaker, text |-> text]>>

\* SupportChatbot.tsx:26-47: the onMessage the instance was given.  The
\* accumulators are set with functional updaters, which see the state as it
\* is; the updater of the history reads currentUserInput and
\* currentModelOutput of the render that created this onMessage.  The state
\* updates of one call are applied together.
onMessage(s, m) ==
    /\ Len(currentUserInput) + Len(m.inputTranscription) <= MaxTranscriptLen
    /\ Len(currentModelOutput) + Len(m.outputTranscription) <= MaxTranscriptLen
    /\ lastTranscript' = TranscriptOf(m)
    /\ IF m.turnComplete
       THEN /\ history' = history
                            \o Entry("user", trim(onMessageDeps[s].currentUserInput))
                            \o Entry("model", trim(onMessageDeps[s].currentModelOutput))
            /\ currentUserInput' = NoText
            /\ currentModelOutput' = NoText
       ELSE /\ currentUserInput' = currentUserInput \o m.inputTranscription
            /\ currentModelOutput' = currentModelOutput \o m.outputTranscription
            /\ UNCHANGED history

\* geminiService.ts:87-92 and 119-124: a message arrives.  With an audio
\* payload handleAudio moves the cursor up to the device clock and suspends
\* in decodeAudioData; without one the handler runs to its end.
onmessage(s, m) ==
    /\ transport[s] = "open"
    /\ msgCount < MaxMsgs
    /\ msgCount' = msgCount + 1
    /\ onMessage(s, m)
    /\ IF outputAudioContext[s] # "null" /\ m.audio
       THEN /\ Len(decoding[s]) < MaxDecoding
            /\ nextStartTime' = [nextStartTime EXCEPT ![s] = Max(@, now)]
            /\ decoding' = [decoding EXCEPT ![s] =
                               Append(@, [id |-> msgCount + 1, ok |-> m.ok, dur |-> m.dur,
                                          interrupted |-> m.interrupted,
                                          cursor |-> nextStartTime[s]])]
            /\ UNCHANGED <<audioSources, lastStarted, flushedUpTo>>
       ELSE /\ IF m.interrupted
               THEN interruptAudio(s, msgCount + 1)
               ELSE UNCHANGED <<nextStartTime, audioSources, lastStarted, flushedUpTo>>
            /\ UNCHANGED decoding
    /\ UNCHANGED lastFailed
    /\ UNCHANGED <<chatbotVars, sessionVars, now, sendCalls,
                   captureVars, callbackVars, otherVars, micAvailable>>

\* decodeAudioData of utils/audioUtils: the suspended handleAudio calls whose
\* decode may settle next.  Decoding is asynchronous and takes its own time
\* for each payload, so any of them may.
DecodeSettles(s) == 1..Len(decoding[s])

\* handleAudio without line 132: the cursor stays where the payload started
handleAudioKeepsCursor(s, i) ==
    /\ i \in DecodeSettles(s)
    /\ LET d == decoding[s][i]
           start == nextStartTime[s]
           h == Handle(d.id, start, d.dur, now)
       IN  /\ decoding' = [decoding EXCEPT ![s] = RemoveAt(@, i)]
           /\ IF ~d.ok
              THEN /\ lastFailed' = [lastFailed EXCEPT ![s] = d.id]
                   /\ UNCHANGED <<nextStartTime, audioSources, lastStarted, flushedUpTo>>
              ELSE /\ UNCHANGED lastFailed
                   /\ \E throws \in BOOLEAN :
                         /\ throws => outputAudioContext[s] = "closed"
                         /\ IF throws
                            THEN UNCHANGED <<nextStartTime, audioSources, lastStarted,
                                             flushedUpTo>>
                            ELSE IF d.interrupted
                                 THEN interruptAudio(s, d.id)
                                 ELSE /\ audioSources' = [audioSources EXCEPT ![s] = @ \cup {h}]
                                      /\ lastStarted' = [lastStarted EXCEPT ![s] = h]
                                      /\ UNCHANGED <<nextStartTime, flushedUpTo>>
    /\ UNCHANGED <<chatbotVars, sessionVars, now, msgCount, sendCalls,
                   captureVars, transcriptVars, otherVars, micAvailable>>

\* handleAudio with a decode failure treated as fatal for playback: the
\* rejection flushes what is scheduled
handleAudioFlushesOnFailure(s, i) ==
    /\ i \in DecodeSettles(s)
    /\ LET d == decoding[s][i]
           start == nextStartTime[s]
           h == Handle(d.id, start, d.dur, now)
       IN  /\ decoding' = [decoding EXCEPT ![s] = RemoveAt(@, i)]
           /\ IF ~d.ok
              THEN /\ lastFailed' = [lastFailed EXCEPT ![s] = d.id]
                   /\ interruptAudio(s, d.id)
              ELSE /\ UNCHANGED lastFailed
                   /\ \E throws \in BOOLEAN :
                         /\ throws => outputAudioContext[s] = "closed"
                         /\ IF throws
                            THEN UNCHANGED <<nextStartTime, audioSources, lastStarted,
                                             flushedUpTo>>
                            ELSE IF d.interrupted
                                 THEN interruptAudio(s, d.id)
                                 ELSE /\ audioSources' = [audioSources EXCEPT ![s] = @ \cup {h}]
                                      /\ nextStartTime' = [nextStartTime EXCEPT ![s] =
                                                               start + d.dur]
                                      /\ lastStarted' = [lastStarted EXCEPT ![s] = h]
                                      /\ UNCHANGED flushedUpTo
    /\ UNCHANGED <<chatbotVars, sessionVars, now, msgCount, sendCalls,
                   captureVars, transcriptVars, otherVars, micAvailable>>

\* geminiService.ts:124-134 and 90-92: decodeAudioData settled for the i-th
\* suspended handleAudio.  A rejection propagates out of onmessage, so the
\* interrupted test of line 90 is not reached.  On an output context that
\* disconnect() closed meanwhile, createBufferSource throws or gives a source
\* that never plays, depending on the browser.  A payload that came with the
\* interrupted flag is started and stopped at once (lines 131-133, 90-91).
handleAudio(s, i) ==
    /\ i \in DecodeSettles(s)
    /\ LET d == decoding[s][i]
           start == nextStartTime[s]
           h == Handle(d.id, start, d.dur, now)
       IN  /\ decoding' = [decoding EXCEPT ![s] = RemoveAt(@, i)]
           /\ IF ~d.ok
              THEN /\ lastFailed' = [lastFailed EXCEPT ![s] = d.id]
                   /\ UNCHANGED <<nextStartTime, audioSources, lastStarted, flushedUpTo>>
              ELSE /\ UNCHANGED lastFailed
                   /\ \E throws \in BOOLEAN :
                         /\ throws => outputAudioContext[s] = "closed"
                         /\ IF throws
                            THEN UNCHANGED <<nextStartTime, audioSources, lastStarted,
                                             flushedUpTo>>
                            ELSE IF d.interrupted
                                 THEN interruptAudio(s, d.id)
                                 ELSE /\ audioSources' = [audioSources EXCEPT ![s] = @ \cup {h}]
                                      /\ nextStartTime' = [nextStartTime EXCEPT ![s] =
                                                               start + d.dur]
                                      /\ lastStarted' = [lastStarted EXCEPT ![s] = h]
                                      /\ UNCHANGED flushedUpTo
    /\ UNCHANGED <<chatbotVars, sessionVars, now, msgCount, sendCalls,
                   captureVars, transcriptVars, otherVars, micAvailable>>

\* A source started at `start` when the clock read `at` plays from the later
\* of the two for `dur`.
PlaybackEnd(h) == Max(h.start, h.at) + h.dur

\* geminiService.ts:128-130: the 'ended' event of a source
ended(s, h) ==
    /\ h \in audioSources[s]
    /\ outputAudioContext[s] = "running"
    /\ PlaybackEnd(h) <= now
    /\ audioSources' = [audioSources EXCEPT ![s] = @ \ {h}]
    /\ UNCHANGED <<chatbotVars, sessionVars, nextStartTime, decoding, lastStarted,
                   lastFailed, flushedUpTo, now, msgCount, sendCalls,
                   captureVars, transcriptVars, otherVars, micAvailable>>

\* the user grants or revokes the microphone permission, or the input device
\* is plugged or unplugged
PermissionChange ==
    /\ micAvailable' = ~micAvailable
    /\ UNCHANGED <<chatbotVars, sessionVars, playbackVars, now, msgCount, sendCalls,
                   captureVars, transcriptVars, otherVars>>

\* Some source is playing: it sits on a running context and its playback
\* is not over.
Playing ==
    \E s \in Sessions :
        /\ outputAudioContext[s] = "running"
        /\ \E h \in audioSources[s] : PlaybackEnd(h) > now

\* the output device's clock advances
Tick ==
    /\ now < MaxClock \/ Playing
    /\ now' = now + 1
    /\ UNCHANGED <<chatbotVars, sessionVars, playbackVars, msgCount, sendCalls,
                   captureVars, transcriptVars, otherVars, micAvailable>>

\* ------------------------------------------------- the encoder on its own

\* geminiService.ts:78: createPcmBlob is applied to the block
Encode ==
    /\ pcmBlob = NoBlob
    /\ pcmBlob' = createPcmBlob(pcmInput)
    /\ UNCHANGED <<audioVars, pcmInput, dataVars, tableVars, dbVars>>

\* -------------------------------------------------------- specifications

\* Connection life cycle and capture of one instance.  In these runs the
\* microphone delivers silence, MaxLifecycleBlocks blocks of it at most.
ConnectionStep ==
    \E s \in Sessions :
        \/ onopen(s)
        \/ onopen_granted(s)
        \/ onopen_denied(s)
        \/ onerror(s)
        \/ onclose(s)
        \/ onaudioprocess(s, SilentBlock) /\ sendCalls' <= MaxLifecycleBlocks

\* Inbound messages and playback of one instance, in a run in which the
\* peer sends n messages at most
PlaybackStepUpTo(n) ==
    \E s \in Sessions :
        \/ \E m \in Messages : onmessage(s, m) /\ msgCount' <= n
        \/ \E i \in 1..MaxDecoding : handleAudio(s, i)
        \/ \E h \in audioSources[s] : ended(s, h)

\* Inbound messages and playback of one instance
PlaybackStep == PlaybackStepUpTo(MaxMsgs)

\* The device clock advances, in a run in which it stops at n
TickUpTo(n) == Tick /\ now' <= n

\* The session driven by a caller that may invoke the two operations of
\* SupportChatbot at any time.  In the runs that walk the whole connection
\* life cycle the peer sends MaxLifecycleMsgs messages at most and the device
\* clock stops at MaxLifecycleClock.
Next ==
    \/ SupportChatbot_connect
    \/ SupportChatbot_connect_granted
    \/ SupportChatbot_connect_denied
    \/ SupportChatbot_disconnect
    \/ ConnectionStep
    \/ PlaybackStepUpTo(MaxLifecycleMsgs)
    \/ PermissionChange
    \/ TickUpTo(MaxLifecycleClock)

Spec == Init /\ [][Next]_vars

\* The connection life cycle alone, under the same caller: the peer sends no
\* message, so nothing is decoded or played.
NextConnection ==
    \/ SupportChatbot_connect
    \/ SupportChatbot_connect_granted
    \/ SupportChatbot_connect_denied
    \/ SupportChatbot_disconnect
    \/ ConnectionStep
    \/ PermissionChange

SpecConnection == Init /\ [][NextConnection]_vars

\* SupportChatbot.tsx:117-135: the buttons the component renders
ClickConnect ==
    /\ connectionState \in {"disconnected", "error"}
    /\ SupportChatbot_connect

ClickDisconnect ==
    /\ connectionState = "connected"
    /\ SupportChatbot_disconnect

\* The session driven through the rendered buttons only.
NextUI ==
    \/ ClickConnect
    \/ SupportChatbot_connect_granted
    \/ SupportChatbot_connect_denied
    \/ ClickDisconnect
    \/ ConnectionStep
    \/ PlaybackStepUpTo(MaxLifecycleMsgs)
    \/ PermissionChange
    \/ TickUpTo(MaxLifecycleClock)

SpecUI == Init /\ [][NextUI]_vars

\* The state after one press of Connect went through: instance 1 is
\* Connected, its Transport open, its capture graph wired, nothing received.
InitPlayback ==
    /\ apiKey = TRUE
    /\ connectionState = "connected"
    /\ liveChatSessionRef = 1
    /\ pendingConnects = 0
    /\ uiStream = TRUE
    /\ created = 1
    /\ sessionPromise = [s \in Sessions |-> IF s = 1 THEN "resolved" ELSE "null"]
    /\ inputAudioContext = [s \in Sessions |-> IF s = 1 THEN "running" ELSE "null"]
    /\ outputAudioContext = [s \in Sessions |-> IF s = 1 THEN "running" ELSE "null"]
    /\ transport = [s \in Sessions |-> IF s = 1 THEN "open" ELSE "none"]
    /\ onopenPc = [s \in Sessions |-> IF s = 1 THEN "done" ELSE "idle"]
    /\ stream = [s \in Sessions |-> s = 1]
    /\ capturing = [s \in Sessions |-> s = 1]
    /\ disconnectPc = [s \in Sessions |-> "idle"]
    /\ resourceLog = [s \in Sessions |->
                         IF s = 1
                         THEN <<Acquire("output"), Acquire("transport"),
                                Acquire("input"), Acquire("microphone")>>
                         ELSE <<>>]
    /\ nextStartTime = [s \in Sessions |-> 0]
    /\ audioSources = [s \in Sessions |-> {}]
    /\ decoding = [s \in Sessions |-> <<>>]
    /\ lastStarted = [s \in Sessions |-> NoHandle]
    /\ lastFailed = [s \in Sessions |-> 0]
    /\ flushedUpTo = [s \in Sessions |-> 0]
    /\ now = 0
    /\ msgCount = 0
    /\ sendCalls = 0
    /\ micAvailable = TRUE
    /\ captureLog = <<>>
    /\ sendLog = <<>>
    /\ InitTranscript
    /\ InitOther

\* The Playback Pipeline of a Connected session: messages arrive, decodes
\* settle, sources end, the device clock advances.
NextPlayback ==
    \/ PlaybackStep
    \/ Tick

SpecPlayback == InitPlayback /\ [][NextPlayback]_vars

\* A Connected session until and after the user presses Disconnect: what was
\* received before may still be decoding when disconnect() tears down.  The
\* peer sends MaxSessionMsgs messages at most.
NextSession ==
    \/ PlaybackStepUpTo(MaxSessionMsgs)
    \/ Tick
    \/ ClickDisconnect

SpecSession == InitPlayback /\ [][NextSession]_vars

\* The event loop of the browser: the device clock advances while something
\* is due, every decode settles and every 'ended' event is dispatched.
SessionFairness ==
    /\ WF_vars(Tick)
    /\ \A s \in Sessions :
          /\ WF_vars(\E i \in 1..MaxDecoding : handleAudio(s, i))
          /\ WF_vars(\E h \in audioSources[s] : ended(s, h))

SpecSessionFair == SpecSession /\ SessionFairness

\* The Capture Pipeline of a Connected session: blocks are captured while the
\* Transport may fail or close and the user may press Disconnect.
NextCapture ==
    \/ \E s \in Sessions :
          \/ \E data \in CaptureBlocks : onaudioprocess(s, data)
          \/ onerror(s)
          \/ onclose(s)
    \/ ClickDisconnect

SpecCapture == InitPlayback /\ [][NextCapture]_vars

\* createPcmBlob applied once to any block
InitEncoder ==
    /\ InitAudio
    /\ apiKey
    /\ micAvailable
    /\ pcmInput \in Blocks
    /\ pcmBlob = NoBlob
    /\ InitDataProvider(0, 0)
    /\ InitDatabaseOn(FALSE)

SpecEncoder == InitEncoder /\ [][Encode]_vars

\* ------------------------------------------------------------------ claims

\* The Capture Pipeline of an instance delivers blocks: the script processor
\* is wired into a context that is running.
CaptureRunning(s) == capturing[s] /\ inputAudioContext[s] = "running"

\* The instance holds no Transport that is open or opening.
TransportReleased(s) == transport[s] \notin {"opening", "open"}

\* Neither audio context of the instance is running.
ContextsReleased(s) ==
    /\ inputAudioContext[s] # "running"
    /\ outputAudioContext[s] # "running"

\* The instance holds no microphone: its input context is not running and it
\* has no MediaStream from getUserMedia (the code never stops one).
MicrophoneReleased(s) == inputAudioContext[s] # "running" /\ ~stream[s]

\* The Playback Pipeline of the instance is flushed.
PlaybackReset(s) == audioSources[s] = {} /\ nextStartTime[s] = 0

\* C1: whenever the caller is shown Connecting, every connect() call it made
\* has been carried out and the API key is configured, the instance it holds
\* has a Transport that is opening or open - also when an earlier Transport of
\* that instance ended with an error or a close. (stated as the claim; the
\* code violates it)
C1_ReconnectOpensTransport ==
    (/\ connectionState = "connecting"
     /\ pendingConnects = 0
     /\ liveChatSessionRef # 0
     /\ apiKey)
        => transport[liveChatSessionRef] \in {"opening", "open"}

\* C2: once disconnect() has been invoked on an instance, and is not merely
\* still waiting for a Transport that is opening, the instance has an empty
\* live-handle set, a reset ScheduleCursor, no open Transport, no running
\* audio context and no microphone stream. (stated as the claim; the code
\* violates it)
C2_DisconnectReleasesAll ==
    \A s \in Sessions :
        (/\ disconnectPc[s] # "idle"
         /\ ~(disconnectPc[s] = "await" /\ transport[s] = "opening"))
            => /\ PlaybackReset(s)
               /\ TransportReleased(s)
               /\ ContextsReleased(s)
               /\ MicrophoneReleased(s)

\* C3: no disconnect() call ends in an exception, and none is left waiting on
\* a Transport that failed to open and so can never deliver a session.
\* (stated as the claim; the code violates it)
C3_DisconnectNeverThrows ==
    \A s \in Sessions :
        /\ disconnectPc[s] # "threw"
        /\ ~(disconnectPc[s] = "await" /\ transport[s] \in {"failed", "closed"})

\* C4: after disconnect() has completed on an instance, no step acquires a
\* microphone stream for it, wires its capture graph or invokes onOpen for
\* it, and its Capture Pipeline is not running. (stated as the claim; the
\* code violates it)
C4_NothingStartsAfterDisconnect ==
    [][\A s \in Sessions :
          disconnectPc[s] = "done"
              => /\ stream'[s] => stream[s]
                 /\ capturing'[s] => capturing[s]
                 /\ onopenPc'[s] = "done" => onopenPc[s] = "done"
                 /\ ~CaptureRunning(s)']_vars

\* C5: the step in which getUserMedia is refused inside onopen moves the
\* session to Error and leaves the Transport closed or closing. (stated as
\* the claim; the code violates it)
C5_MicDeniedGoesToError ==
    [][\A s \in Sessions :
          (onopenPc[s] = "awaitMic" /\ onopenPc'[s] = "failed" /\ ~micAvailable)
              => /\ connectionState' = "error"
                 /\ transport'[s] \in {"closing", "closed", "failed"}]_vars

\* C6: the step in which the Transport of the held instance errors while the
\* session is Connecting or Connected moves the session to Error and leaves
\* no audio context running and no Capture Pipeline delivering. (stated as
\* the claim; the code violates it)
C6_ErrorReleasesResources ==
    [][\A s \in Sessions :
          (/\ s = liveChatSessionRef
           /\ connectionState \in {"connecting", "connected"}
           /\ transport[s] \in {"opening", "open"}
           /\ transport'[s] = "failed")
              => /\ connectionState' = "error"
                 /\ ContextsReleased(s)'
                 /\ ~CaptureRunning(s)']_vars

\* C7: the step in which the Transport of the held instance closes while the
\* session is Connected makes the session Disconnected, leaves no audio
\* context running, empties the live-handle set and resets the
\* ScheduleCursor. (stated as the claim; the code violates it)
C7_CloseReleasesResources ==
    [][\A s \in Sessions :
          (/\ s = liveChatSessionRef
           /\ connectionState = "connected"
           /\ transport[s] \in {"open", "closing"}
           /\ transport'[s] = "closed")
              => /\ connectionState' = "disconnected"
                 /\ ContextsReleased(s)'
                 /\ PlaybackReset(s)']_vars

\* C8: a Capture Pipeline is running if and only if the session is
\* Connected. (stated as the claim; the code violates it)
C8_CaptureIffConnected ==
    (\E s \in Sessions : CaptureRunning(s)) <=> connectionState = "connected"

\* A step in which a SupportChatbot.connect call gets its microphone and
\* calls LiveChatSession.connect on an instance that already has a
\* sessionPromise.
ConnectWhileInFlight ==
    /\ pendingConnects' < pendingConnects
    /\ micAvailable
    /\ liveChatSessionRef # 0
    /\ sessionPromise[liveChatSessionRef] # "null"

\* C9: LiveChatSession.connect called on an instance whose connect is in
\* flight is a no-op: the catch of the caller is not reached (connectionState
\* stays as it was), and the Transport, the promise, both audio contexts and
\* every other field of every instance stay as they were.
C9_ConnectInFlightIsNoOp ==
    [][ConnectWhileInFlight
          => /\ connectionState' = connectionState
             /\ UNCHANGED <<sessionVars, playbackVars>>]_vars

\* C9 witness: the caller is shown Connecting with no connect() call pending
\* although the held instance's onopen already ran to its end on an open
\* Transport: a connect() was carried out on the in-flight instance.
C9_Witness ==
    /\ connectionState = "connecting"
    /\ pendingConnects = 0
    /\ liveChatSessionRef # 0
    /\ transport[liveChatSessionRef] = "open"
    /\ onopenPc[liveChatSessionRef] = "done"
    /\ outputAudioContext[liveChatSessionRef] = "running"

\* C10: no step takes the session to Connected from Disconnected or Error.
\* (stated as the claim; the code violates it)
C10_ConnectedOnlyFromConnecting ==
    [][connectionState' = "connected"
          => connectionState \in {"connecting", "connected"}]_vars

\* MediaStreams obtained from getUserMedia and not stopped: the one of
\* SupportChatbot.connect (line 68) and the one of each instance's onopen.
MicStreamsHeld == (IF uiStream THEN 1 ELSE 0) + Cardinality({s \in Sessions : stream[s]})

\* Instances whose output context is running: live Playback Pipelines.
PlaybackPipelines == {s \in Sessions : outputAudioContext[s] = "running"}

\* Instances whose Capture Pipeline delivers blocks.
CapturePipelines == {s \in Sessions : CaptureRunning(s)}

\* C11: a session that reached Connected holds exactly one microphone stream
\* and exactly one output device; a session that is Disconnected or in Error
\* holds no microphone stream and no running audio context; and never is more
\* than one Capture Pipeline or more than one Playback Pipeline alive.
\* (stated as the claim; the code violates it)
C11_OneAcquisitionReleasedOnTerminal ==
    /\ connectionState = "connected"
          => MicStreamsHeld = 1 /\ Cardinality(PlaybackPipelines) = 1
    /\ connectionState \in {"disconnected", "error"}
          => /\ MicStreamsHeld = 0
             /\ \A s \in Sessions : ContextsReleased(s)
    /\ Cardinality(CapturePipelines) <= 1
    /\ Cardinality(PlaybackPipelines) <= 1

Reverse(q) == [i \in 1..Len(q) |-> q[Len(q) + 1 - i]]
IsPrefix(p, q) == Len(p) <= Len(q) /\ \A i \in 1..Len(p) : p[i] = q[i]
Range(q) == {q[i] : i \in 1..Len(q)}
ResourcesOf(q) == [i \in 1..Len(q) |-> q[i].res]

\* What the instance acquired, and what it released, each in order.
Acquired(s) == ResourcesOf(SelectSeq(resourceLog[s], LAMBDA e : e.op = "acquire"))
Released(s) == ResourcesOf(SelectSeq(resourceLog[s], LAMBDA e : e.op = "release"))

\* geminiService.ts:64, 66, 71, 72: the order in which connect() and its
\* onopen handler acquire
AcquisitionOrder == <<"output", "transport", "input", "microphone">>

\* connect() acquires the output device, then opens the Transport, and its
\* onopen handler acquires the input device and then the microphone.
AcquiresInOrder(s) == IsPrefix(Acquired(s), AcquisitionOrder)

Scheduled(s) == lastStarted'[s] \notin {lastStarted[s], NoHandle}

\* A step in which the decode of a payload of the instance fails.
DecodeFailed(s) == lastFailed'[s] # lastFailed[s]

\* A step in which onmessage of the instance reaches interruptAudio (line 91):
\* at once for a message without audio, after the decode for one with audio.
HandlesInterruption(s) ==
    \/ \E m \in Messages :
          /\ m.interrupted
          /\ ~m.audio \/ outputAudioContext[s] = "null"
          /\ onmessage(s, m)
    \/ \E i \in DecodeSettles(s) :
          /\ decoding[s][i].interrupted
          /\ decoding[s][i].ok
          /\ handleAudio(s, i)

\* A step that schedules the first payload received after the last flush:
\* whatever was started since that flush had been received before it.
SchedulesFirstAfterFlush(s) ==
    /\ Scheduled(s)
    /\ lastStarted'[s].id > flushedUpTo[s]
    /\ lastStarted[s].id <= flushedUpTo[s]

\* C13: a step that handles an interruption signal leaves the live-handle set
\* empty and the ScheduleCursor reset, and the first payload received after
\* it is started at once: its start time is not later than the device clock
\* at that moment, whatever was queued before the interruption. (stated as
\* the claim; the code violates it)
C13_InterruptionResetsSchedule ==
    [][\A s \in Sessions :
          /\ HandlesInterruption(s) => PlaybackReset(s)'
          /\ SchedulesFirstAfterFlush(s)
                => lastStarted'[s].start <= lastStarted'[s].at]_vars

\* C14: sources are started in the order in which their payloads were
\* received: whenever a source is started after another one (with no flush
\* in between), its payload was received later and its start time is not
\* earlier. (stated as the claim; the code violates it)
C14_StartedInReceiptOrder ==
    [][\A s \in Sessions :
          (Scheduled(s) /\ lastStarted[s] # NoHandle)
              => /\ lastStarted[s].id < lastStarted'[s].id
                 /\ lastStarted[s].start <= lastStarted'[s].start]_vars

\* C15: every source is started at max(ScheduleCursor, device clock), both
\* read when it is started, so never at a time the device clock has passed,
\* and the ScheduleCursor is then that start time plus the buffer's
\* duration. (stated as the claim; the code violates it)
C15_StartsAtMaxOfCursorAndClock ==
    [][\A s \in Sessions :
          Scheduled(s)
              => /\ lastStarted'[s].start = Max(nextStartTime[s], now)
                 /\ lastStarted'[s].start >= now
                 /\ nextStartTime'[s] = lastStarted'[s].start + lastStarted'[s].dur]_vars

\* The time at which the source started last (since the last flush) is
\* scheduled to end.
LastEnd(s) == lastStarted[s].start + lastStarted[s].dur

\* C16 as stated: a source started after another one with no interruption in
\* between gets the start time of that one plus its duration, the first one
\* is not started later than the device clock reads, and start times do not
\* decrease. (the code violates the first part)
C16_StartIsPreviousEnd ==
    [][\A s \in Sessions :
          Scheduled(s)
              => IF lastStarted[s] = NoHandle
                 THEN lastStarted'[s].start <= now
                 ELSE /\ lastStarted'[s].start = LastEnd(s)
                      /\ lastStarted'[s].start >= lastStarted[s].start]_vars

\* C16 as amended: a source started after another one with no interruption
\* in between gets the start time of that one plus its duration, or a later
\* reading of the device clock (one taken when a payload was received in
\* between, so not later than the clock reads now); the first one is not
\* started later than the device clock reads; start times do not decrease.
C16_StartIsPreviousEndOrClock ==
    [][\A s \in Sessions :
          Scheduled(s)
              => IF lastStarted[s] = NoHandle
                 THEN lastStarted'[s].start <= now
                 ELSE /\ lastStarted'[s].start >= LastEnd(s)
                      /\ lastStarted'[s].start <= Max(LastEnd(s), now)
                      /\ lastStarted'[s].start >= lastStarted[s].start]_vars

\* C16 witness: the second of two sources was started later than the first
\* one ends, at a later clock reading, and no flush came in between.
C16_Witness ==
    \E s \in Sessions :
        \E h \in audioSources[s] :
            /\ lastStarted[s] # NoHandle
            /\ h.id < lastStarted[s].id
            /\ lastStarted[s].start > h.start + h.dur
            /\ flushedUpTo[s] = 0

\* The suspended handleAudio call whose decode is rejected in this step
FailedDecode(s) ==
    {i \in DecodeSettles(s) : decoding[s][i].id = lastFailed'[s]}

\* C17: a payload that fails to decode leaves the schedule cursor as it was
\* before the payload was received: after the failed handling nextStartTime
\* has the value it had when the message arrived. (stated as the claim; the
\* code violates it)
C17_DecodeFailureKeepsCursor ==
    [][\A s \in Sessions :
          DecodeFailed(s) =>
              \A i \in FailedDecode(s) : nextStartTime'[s] = decoding[s][i].cursor]_vars

\* C18: a decode failure is not fatal.  The step in which a payload fails to
\* decode changes nothing of the caller's connection state, of the Transport,
\* of the two audio contexts or of the Capture Pipeline, adds no handle to the
\* live-handle set and removes none, and leaves every other payload that is
\* being decoded where it was, so that it is scheduled when its decode
\* settles.
C18_DecodeFailureIsNotFatal ==
    [][\A s \in Sessions :
          DecodeFailed(s) =>
              /\ UNCHANGED <<chatbotVars, sessionVars>>
              /\ audioSources' = audioSources
              /\ \A i \in FailedDecode(s) : decoding'[s] = RemoveAt(decoding[s], i)]_vars

\* C18 witness: a Connected session with a running Capture Pipeline in which
\* a payload failed to decode and a later payload was decoded and scheduled after the
\* failure.
C18_Witness ==
    \E s \in Sessions :
        /\ connectionState = "connected"
        /\ CaptureRunning(s)
        /\ sessionPromise[s] = "resolved"
        /\ lastFailed[s] > 0
        /\ lastStarted[s].id > lastFailed[s]
        /\ lastStarted[s] \in audioSources[s]

\* The cursor of the instance goes down in this step.
CursorDecreases(s) == nextStartTime'[s] < nextStartTime[s]

\* The step schedules the first buffer after a reset of the cursor.
SchedulesNextAfterReset(s) ==
    Scheduled(s) /\ lastStarted[s] = NoHandle /\ flushedUpTo[s] > 0

\* C19: the schedule cursor never decreases from one state to the next,
\* except in a step that handles an interruption signal; there it is reset
\* (to zero), so that the next buffer scheduled starts at the device clock's
\* current time. (stated as the claim; the code violates it)
C19_CursorDecreasesOnlyOnInterruption ==
    [][\A s \in Sessions :
          /\ CursorDecreases(s) => HandlesInterruption(s) /\ nextStartTime'[s] = 0
          /\ SchedulesNextAfterReset(s) => lastStarted'[s].start = now]_vars

\* The handles that leave the live-handle set of the instance in this step
Removed(s) == audioSources[s] \ audioSources'[s]

\* The handles that enter the live-handle set of the instance in this step
Added(s) == audioSources'[s] \ audioSources[s]

\* C20: the live-handle set holds the buffers that were scheduled and have
\* neither completed nor been stopped.  A handle enters the set once, in the
\* step that schedules its buffer; handles leave it one by one when their
\* playback has ended, or all together when playback is flushed; and once no
\* further payload arrives the set becomes empty and stays empty. (stated as
\* the claim; the code violates it)
C20_LiveHandlesDrain ==
    /\ [][\A s \in Sessions :
            /\ Added(s) = (IF Scheduled(s) THEN {lastStarted'[s]} ELSE {})
            /\ \/ Removed(s) = {}
               \/ \E h \in audioSources[s] : Removed(s) = {h} /\ PlaybackEnd(h) <= now
               \/ audioSources'[s] = {} /\ nextStartTime'[s] = 0]_vars
    /\ <>[](\A s \in Sessions : audioSources[s] = {})

\* ---------------------------------------------- capture and encoder claims

\* A step in which the script processor delivers a block
Captures == Len(captureLog') = Len(captureLog) + 1

\* The block delivered in this step
CapturedBlock == captureLog'[Len(captureLog')]

\* The descriptor every chunk is tagged with
PcmDescriptor == "audio/pcm;rate=16000"

\* C21: while the session is Connected, every captured block results in
\* exactly one send call, carrying the encoding of that block tagged
\* audio/pcm;rate=16000, and the send calls are made in the order of
\* capture: a step sends nothing but the block captured in it, and puts it
\* after everything sent before.
C21_EveryBlockSentOnceInOrder ==
    [][/\ (connectionState = "connected" /\ Captures)
            => sendLog' = Append(sendLog,
                                 [session |-> CapturedBlock.session,
                                  media |-> [data |-> encode(Uint8Array(Int16Array(
                                                          CapturedBlock.data))),
                                             mimeType |-> PcmDescriptor]])
       /\ sendLog' # sendLog
            => /\ Captures
               /\ Len(sendLog') = Len(sendLog) + 1
               /\ SubSeq(sendLog', 1, Len(sendLog)) = sendLog]_vars

\* C21 witness: a Connected session sent two different blocks, the one
\* captured first first.
C21_Witness ==
    /\ connectionState = "connected"
    /\ Len(captureLog) = 2
    /\ Len(sendLog) = 2
    /\ captureLog[1].data # captureLog[2].data
    /\ \A i \in 1..2 : sendLog[i].media = createPcmBlob(captureLog[i].data)

\* The 16-bit signed values a chunk of little-endian bytes holds
Int16Values(bytes) ==
    [i \in 1..(Len(bytes) \div 2) |->
        LET u == bytes[2 * i - 1] + 256 * bytes[2 * i]
        IN  IF u >= FullScale THEN u - 2 * FullScale ELSE u]

\* t is sample * 32768 truncated to an integer, for the sample kept as n
IsTruncation(t, n) ==
    IF n >= 0
    THEN t * MaxSubSteps <= n /\ n < (t + 1) * MaxSubSteps
    ELSE (t - 1) * MaxSubSteps < n /\ n <= t * MaxSubSteps

\* t wrapped modulo 2^16 into -32768..32767, for t within one period of it
Wrapped(t) ==
    IF t > FullScale - 1 THEN t - 2 * FullScale
    ELSE IF t < -FullScale THEN t + 2 * FullScale
    ELSE t

\* C22: for a block of N samples the encoder produces 2N bytes holding N
\* 16-bit signed values; each value is sample * 32768 truncated to an
\* integer and, when that lies outside -32768..32767, wrapped modulo 2^16
\* into that range; a block of samples all 0.5 gives values all 16384.
C22_EncodesTruncatedWrapped ==
    pcmBlob # NoBlob =>
        LET bytes == decode(pcmBlob.data)
            values == Int16Values(bytes)
            N == Len(pcmInput)
        IN  /\ Len(bytes) = 2 * N
            /\ Len(values) = N
            /\ \A i \in 1..N :
                  \E t \in (pcmInput[i] \div MaxSubSteps - 1)..(pcmInput[i] \div MaxSubSteps + 1) :
                      IsTruncation(t, pcmInput[i]) /\ values[i] = Wrapped(t)
            /\ (\A i \in 1..N : pcmInput[i] = SampleOf(16384))
                  => \A i \in 1..N : values[i] = 16384

\* C22 witness: a block with a sample of 0.5 and a sample of 1.0, which
\* wraps, was encoded.
C22_Witness ==
    /\ pcmBlob # NoBlob
    /\ pcmInput = <<SampleOf(16384), SampleOf(32768)>>
    /\ Int16Values(decode(pcmBlob.data)) = <<16384, -32768>>

\* The sample kept as n lies in the range -1.0 .. 1.0
InRange(n) == -FullScale * MaxSubSteps <= n /\ n <= FullScale * MaxSubSteps

\* |value / 32768 - sample| <= 1 / 32768, for the sample kept as n
WithinOneStep(value, n) ==
    /\ value * MaxSubSteps - n <= MaxSubSteps
    /\ n - value * MaxSubSteps <= MaxSubSteps

\* C23: for every sample in the range -1.0 .. 1.0, scaling its encoded 16-bit
\* value back (value / 32768) recovers the sample to within 1/32768.
\* (stated as the claim; the code violates it)
C23_RoundTripWithinOneStep ==
    pcmBlob # NoBlob =>
        LET values == Int16Values(decode(pcmBlob.data))
        IN  \A i \in 1..Len(pcmInput) :
                InRange(pcmInput[i]) => WithinOneStep(values[i], pcmInput[i])

\* C24: a payload received before an interruption signal is never started
\* after that interruption was handled, even when its decode was still
\* pending: while the output context runs, no source that plays or is
\* queued belongs to a message up to the one that caused the last flush.
C24_NothingOlderThanTheFlushPlays ==
    \A s \in Sessions :
        outputAudioContext[s] = "running" =>
            \A h \in audioSources[s] : h.id > flushedUpTo[s]

\* the device clock time at which a started source begins to sound
EffectiveStart(h) == Max(h.start, h.at)

Overlap(h1, h2) ==
    /\ EffectiveStart(h1) < PlaybackEnd(h2)
    /\ EffectiveStart(h2) < PlaybackEnd(h1)

\* C25: no two buffers of the live-handle set have overlapping playback
\* intervals: of two sources started and not stopped, one ends (effective
\* start on the device clock plus duration) at or before the effective start
\* of the other.
C25_LiveHandlesNeverOverlap ==
    \A s \in Sessions :
        outputAudioContext[s] = "running" =>
            \A h1, h2 \in audioSources[s] : h1 # h2 => ~Overlap(h1, h2)

\* The suspended handleAudio calls of the instance that this step resumes and
\* whose message has the interrupted flag set.
InterruptedSettles(s) ==
    {i \in DecodeSettles(s) : /\ decoding'[s] = RemoveAt(decoding[s], i)
                              /\ decoding[s][i].interrupted}

\* C26: every inbound message whose interrupted flag is set flushes playback,
\* also when it carries an audio payload and whether or not that payload
\* decodes: the step that ends the handling of such a message leaves the
\* live-handle set empty and the cursor at 0.
C26_EveryInterruptedMessageFlushes ==
    [][\A s \in Sessions :
          (outputAudioContext[s] = "running" /\ InterruptedSettles(s) # {}) =>
              audioSources'[s] = {} /\ nextStartTime'[s] = 0]_vars

\* The transcript of a Connected session: messages arrive that carry
\* transcriptions and the end of a turn.
NextTranscript ==
    \E s \in Sessions : \E m \in TranscriptMessages : onmessage(s, m)

SpecTranscript == InitPlayback /\ [][NextTranscript]_vars

\* A step that handles a message which ends a turn and carries no
\* transcription of its own
EndOfTurn ==
    /\ msgCount' = msgCount + 1
    /\ lastTranscript' = [inputTranscription |-> NoText, outputTranscription |-> NoText,
                          turnComplete |-> TRUE]

\* C27: when a turnComplete message arrives, the input transcript and the
\* output transcript accumulated from the session's earlier messages are
\* appended to the history, the user entry first, then the model entry, each
\* only if it is not empty after trimming, and both accumulators are cleared:
\* no transcribed text of a completed turn is lost.
C27_TurnCompleteMovesTranscriptToHistory ==
    [][EndOfTurn =>
          /\ history' = history \o Entry("user", trim(currentUserInput))
                                \o Entry("model", trim(currentModelOutput))
          /\ currentUserInput' = NoText
          /\ currentModelOutput' = NoText]_vars

\* ------------------------------------------------------- databaseService

\* A platform initialisation: how it ended, and how many closeDatabase calls
\* had settled when it was started
InitRun(status, epoch) == [status |-> status, epoch |-> epoch]

\* databaseService.ts:43-55: a call of initDatabase.  The async function of
\* lines 46-52 runs up to its first await within the call.
initDatabase ==
    /\ IF dbInitPromise # 0
       THEN /\ lastReceived' = Receipt(dbInitPromise, closed)
            /\ UNCHANGED <<dbInitPromise, initRuns>>
       ELSE /\ Len(initRuns) < MaxInits
            /\ initRuns' = Append(initRuns, InitRun("running", closed))
            /\ dbInitPromise' = Len(initRuns) + 1
            /\ lastReceived' = Receipt(Len(initRuns) + 1, closed)
    /\ UNCHANGED <<db, isNative, closePc, closed>>

\* databaseService.ts:60-129: initNativeDatabase or initWebDatabase of run r
\* comes to its end.  It assigns the connection before it opens it and
\* creates the tables (lines 69-84, 110-120), so a run that fails may have
\* assigned one.
initSettles(r) ==
    /\ r \in 1..Len(initRuns)
    /\ initRuns[r].status = "running"
    /\ \E ok, assigned \in BOOLEAN :
          /\ ok => assigned
          /\ initRuns' = [initRuns EXCEPT
                              ![r].status = IF ok THEN "resolved" ELSE "rejected"]
          /\ db' = IF assigned THEN "open" ELSE db
    /\ UNCHANGED <<dbInitPromise, isNative, closePc, closed, lastReceived>>

\* databaseService.ts:430-443: a call of closeDatabase, to its end or to the
\* await of closeConnection.  persistDatabase (lines 134-151) throws when
\* String.fromCharCode is given more arguments than the engine takes, or
\* when the second setItem of its catch fails as the first did.
closeDatabase ==
    /\ closePc = "idle"
    /\ closed < MaxCloses
    /\ IF db = "open"
       THEN IF isNative
            THEN /\ closePc' = "await"
                 /\ UNCHANGED <<db, dbInitPromise, closed>>
            ELSE /\ closed' = closed + 1
                 /\ \E throws \in BOOLEAN :
                       IF throws
                       THEN UNCHANGED <<db, dbInitPromise>>
                       ELSE db' = "null" /\ dbInitPromise' = 0
                 /\ UNCHANGED closePc
       ELSE /\ dbInitPromise' = 0
            /\ closed' = closed + 1
            /\ UNCHANGED <<db, closePc>>
    /\ UNCHANGED <<initRuns, isNative, lastReceived>>

\* databaseService.ts:431-434 and 442: closeConnection settled.  A rejection
\* ends the call there.
closeConnection ==
    /\ closePc = "await"
    /\ closePc' = "idle"
    /\ closed' = closed + 1
    /\ \E rejects \in BOOLEAN :
          IF rejects
          THEN UNCHANGED <<db, dbInitPromise>>
          ELSE db' = "null" /\ dbInitPromise' = 0
    /\ UNCHANGED <<initRuns, isNative, lastReceived>>

\* The module used by callers that may call its two operations at any time
NextDatabase ==
    \/ initDatabase /\ UNCHANGED <<audioVars, encoderVars, dataVars, tableVars>>
    \/ \E r \in 1..MaxInits :
          initSettles(r) /\ UNCHANGED <<audioVars, encoderVars, dataVars, tableVars>>
    \/ closeDatabase /\ UNCHANGED <<audioVars, encoderVars, dataVars, tableVars>>
    \/ closeConnection /\ UNCHANGED <<audioVars, encoderVars, dataVars, tableVars>>

InitDatabase ==
    /\ InitAudio
    /\ apiKey
    /\ micAvailable
    /\ InitPcm
    /\ InitDataProvider(0, 0)
    /\ \E native \in BOOLEAN : InitDatabaseOn(native)

SpecDatabase == InitDatabase /\ [][NextDatabase]_vars

\* ---------------------------------------------------------- DataProvider

\* unnamed/part_000:74-120: the number of readings of generateMockHistory,
\* one for each interval from the start time to now, both ends included
generateMockHistory(hours, intervalSeconds) == (hours * 60 * 60) \div intervalSeconds + 1

\* DataContext.tsx:94-117
startRecording ==
    IF recordingIntervalRef
    THEN UNCHANGED <<recordingIntervalRef, recordingTimers>>
    ELSE /\ recordingIntervalRef' = TRUE
         /\ recordingTimers' = recordingTimers + 1

\* DataContext.tsx:119-126
stopRecording ==
    IF recordingIntervalRef
    THEN /\ recordingIntervalRef' = FALSE
         /\ recordingTimers' = recordingTimers - 1
    ELSE UNCHANGED <<recordingIntervalRef, recordingTimers>>

\* DataContext.tsx:128-141
startSimulation ==
    IF simulationIntervalRef
    THEN UNCHANGED <<simulationIntervalRef, simulationTimers>>
    ELSE /\ simulationIntervalRef' = TRUE
         /\ simulationTimers' = simulationTimers + 1

\* DataContext.tsx:143-153
stopSimulation ==
    IF simulationIntervalRef
    THEN /\ simulationIntervalRef' = FALSE
         /\ simulationTimers' = simulationTimers - 1
    ELSE UNCHANGED <<simulationIntervalRef, simulationTimers>>

\* DataContext.tsx:155-174: updateDeviceState(settings, on) of a render in
\* which isDbReady is `ready`
updateDeviceState(on, ready) ==
    /\ settingsRef' = TRUE
    /\ isDeviceOnRef' = on
    /\ IF on /\ ready
       THEN IF ~isDeviceOnRef
            THEN startSimulation /\ startRecording
            ELSE UNCHANGED timerVars
       ELSE IF ~on /\ isDeviceOnRef
            THEN stopSimulation /\ stopRecording
            ELSE UNCHANGED timerVars

\* Timers and user input are tasks of the event loop: one runs only while
\* init waits for something that takes a task to arrive.  In a browser that
\* is the load of sql.js alone (databaseService.ts:98); the queries that
\* follow are synchronous calls of sql.js, and the awaits on them resume in
\* the same task.  On a native platform each query goes to the plugin.
TaskMayRun == isNative \/ initPc \in {"idle", "initDatabase", "done", "failed"}

\* App.tsx:50-53: the effect runs after the first render and after a render
\* with other device settings
App_setDeviceSettings ==
    /\ TaskMayRun
    /\ updateDeviceState(isDeviceOn, isDbReady)
    /\ UNCHANGED <<appVars, isDbReady, initPc, countVars, tableVars, dbVars>>

\* App.tsx:44 and 50-53: the user switches the device in the mounted app (the
\* effects of the first render have run), the effect runs after the render
App_setIsDeviceOn ==
    /\ TaskMayRun
    /\ settingsRef
    /\ initPc # "idle"
    /\ isDeviceOn' = ~isDeviceOn
    /\ updateDeviceState(~isDeviceOn, isDbReady)
    /\ UNCHANGED <<isDbReady, initPc, countVars, tableVars, dbVars>>

\* DataContext.tsx:54-57: the effect of the first render calls init(), which
\* calls initDatabase
init ==
    /\ initPc = "idle"
    /\ initDatabase
    /\ initPc' = "initDatabase"
    /\ UNCHANGED <<appVars, isDbReady, deviceVars, countVars, tableVars>>

\* DataContext.tsx:57-58 and 76-78: the promise of initDatabase settled.
\* setIsDbReady(true) gives a render with a new updateDeviceState, so the
\* effect of App.tsx:50-53 runs again.
init_initDatabase ==
    /\ initPc = "initDatabase"
    /\ initRuns[dbInitPromise].status # "running"
    /\ IF initRuns[dbInitPromise].status = "resolved"
       THEN /\ isDbReady' = TRUE
            /\ initPc' = "getLatestReading"
            /\ updateDeviceState(isDeviceOn, TRUE)
       ELSE /\ initPc' = "failed"
            /\ UNCHANGED <<isDbReady, deviceVars>>
    /\ UNCHANGED <<appVars, countVars, tableVars, dbVars>>

\* DataContext.tsx:61-71: getLatestReading settled and, with no reading,
\* saveReadings stored the mock history, else getReadings read the table;
\* init waits for the promise of that call
init_getLatestReading ==
    /\ initPc = "getLatestReading"
    /\ IF storedOld + storedRecent = 0
       THEN /\ storedRecent' = generateMockHistory(24, 60)
            /\ readingsRead' = generateMockHistory(24, 60)
            /\ UNCHANGED storedOld
       ELSE /\ readingsRead' = storedOld + storedRecent
            /\ UNCHANGED tableVars
    /\ initPc' = "setReadingsCount"
    /\ UNCHANGED <<appVars, isDbReady, deviceVars, readingsCount, periodicSaves, dbVars>>

\* DataContext.tsx:66 and 70: saveReadings or getReadings settled
init_setReadingsCount ==
    /\ initPc = "setReadingsCount"
    /\ readingsCount' = readingsRead
    /\ initPc' = "deleteOldReadings"
    /\ UNCHANGED <<appVars, isDbReady, deviceVars, readingsRead, periodicSaves,
                   tableVars, dbVars>>

\* DataContext.tsx:74 and databaseService.ts:366-392
init_deleteOldReadings ==
    /\ initPc = "deleteOldReadings"
    /\ storedOld' = 0
    /\ initPc' = "done"
    /\ UNCHANGED <<appVars, isDbReady, deviceVars, countVars, storedRecent, dbVars>>

\* DataContext.tsx:99-116: a recording timer fires and its reading is saved
recordingTick ==
    /\ TaskMayRun
    /\ recordingTimers > 0
    /\ settingsRef /\ isDeviceOnRef
    /\ periodicSaves < MaxSaves
    /\ storedRecent' = storedRecent + 1
    /\ readingsCount' = readingsCount + 1
    /\ periodicSaves' = periodicSaves + 1
    /\ UNCHANGED <<appVars, isDbReady, initPc, deviceVars, readingsRead, storedOld, dbVars>>

\* The provider under an App whose user switches the device and changes its
\* settings at any time
NextData ==
    \/ App_setDeviceSettings /\ UNCHANGED <<audioVars, encoderVars>>
    \/ App_setIsDeviceOn /\ UNCHANGED <<audioVars, encoderVars>>
    \/ init /\ UNCHANGED <<audioVars, encoderVars>>
    \/ \E r \in 1..MaxInits :
          initSettles(r) /\ UNCHANGED <<audioVars, encoderVars, dataVars, tableVars>>
    \/ init_initDatabase /\ UNCHANGED <<audioVars, encoderVars>>
    \/ init_getLatestReading /\ UNCHANGED <<audioVars, encoderVars>>
    \/ init_setReadingsCount /\ UNCHANGED <<audioVars, encoderVars>>
    \/ init_deleteOldReadings /\ UNCHANGED <<audioVars, encoderVars>>
    \/ recordingTick /\ UNCHANGED <<audioVars, encoderVars>>

\* The app starts over the table an earlier run left
InitData ==
    /\ InitAudio
    /\ apiKey
    /\ micAvailable
    /\ InitPcm
    /\ \E old, recent \in 0..MaxStored : InitDataProvider(old, recent)
    /\ \E native \in BOOLEAN : InitDatabaseOn(native)

SpecData == InitData /\ [][NextData]_vars

\* Both timers of the provider are alive
TimersRunning == recordingTimers > 0 /\ simulationTimers > 0

\* C28: after any sequence of updateDeviceState calls and database-ready
\* events, the recording timer and the simulation timer are both running if
\* and only if the device is on and the database is ready, and there is
\* never more than one recording timer or more than one simulation timer
\* alive.
C28_TimersRunIffOnAndReady ==
    /\ TimersRunning <=> (isDeviceOn /\ isDbReady)
    /\ recordingTimers <= 1
    /\ simulationTimers <= 1

\* The readings actually stored
Stored == storedOld + storedRecent

\* C29: once the database initialisation of DataProvider has finished, the
\* readingsCount it exposes equals the number of readings actually stored,
\* and it stays equal after every successful periodic saveReading.
C29_CountIsWhatIsStored ==
    initPc = "done" => readingsCount = Stored

\* The platform initialisations started so far
Runs == 1..Len(initRuns)

\* No two platform initialisations were started between the same two
\* closeDatabase calls.
OneRunBetweenCloses ==
    \A r1, r2 \in Runs : r1 # r2 => initRuns[r1].epoch # initRuns[r2].epoch

\* The last caller of initDatabase was given the promise of the run started
\* since the last closeDatabase call.
ReceivedThatRun ==
    lastReceived.run # 0 => initRuns[lastReceived.run].epoch = lastReceived.epoch

\* closeDatabase was called, and initDatabase was not called since.
ClosedLast == closed > lastReceived.epoch

\* C30: however many callers invoke initDatabase, the platform
\* initialisation runs at most once between two closeDatabase calls and every
\* caller receives the outcome of that single run; after closeDatabase the
\* next initDatabase call starts a fresh initialisation (it finds no
\* promise).
C30_InitOncePerClose ==
    /\ OneRunBetweenCloses
    /\ ReceivedThatRun
    /\ ClosedLast => dbInitPromise = 0

====
